---- MODULE Spec2Model ----
(***************************************************************************)
(* Discrete-event simulation of n service stations in series with          *)
(* backward feedback: servers_simulation of sim.ipynb.                     *)
(*                                                                         *)
(* Times are integers.  The random draws of the program are inputs of the  *)
(* actions: the inter-arrival gap (random.expovariate), the service        *)
(* duration (random.expovariate), the routing draw u (random.uniform(0,1), *)
(* in thirds) and the backward target j (random.choice).                   *)
(***************************************************************************)
EXTENDS Integers, Sequences, FiniteSets, TLC

\* ---------------------------------------------------------------- bounds
MaxN == 3            \* station counts 1..MaxN
MaxHorizon == 3      \* the non-zero simulation horizon
MaxGap == 2          \* inter-arrival gaps 1..MaxGap
MaxDur == 1          \* service durations 0..MaxDur
MaxFeedback == 1     \* routing draws that fire feedback, per run
MaxRegPending == 4   \* variant: pending events at the start of a pass
MaxRegArrivals == 3  \* variant: arrivals counted at the start of a pass

Horizons == {0, MaxHorizon}
Gaps == 1..MaxGap
Durations == 0..MaxDur
\* random.uniform(0,1) = 0 + 1*random() with random() in [0,1): the draw
\* and the feedback probabilities in thirds; every probability is below
\* the largest draw, so a forward draw always exists
Draws == {0, 1, 2}
PValues == {0, 1}
\* the feedback vectors of a network of k stations: one probability for
\* all stations (entries 0 and k-1 included)
PVectors(k) == {[i \in 0..(k - 1) |-> v] : v \in PValues}

\* ------------------------------------------------------------- EventType
ASIGNED == 1
ARRIVAL == 2
FINISH == 3

VARIABLES
  time,      \* parameter: simulation horizon
  n,         \* parameter: number of stations
  p,         \* parameter: feedback probability per station
  finish,    \* parameter: drain-to-completion flag
  t,         \* clock: time of the last event dispatched
  events,    \* the priority queue, as the sequence of its entries in pop order
  n_a,       \* arrival counter
  n_d,       \* departure counter
  q,         \* q[i]: dict client -> list of queue-entry times
  a,         \* a[i]: dict client -> list of service-start times
  d,         \* d[i]: dict client -> list of departure times
  queue,     \* queue[i]: FIFO of client ids of station i
  pc,        \* "run" inside the while loop, "done" after the return
  feedbacks, \* input bound: routing draws that fired feedback so far
  visits,    \* history: per client, the stations of its ASIGNED events
  lastRoute, \* history: the routing decision of the last FINISH dispatched
  lastAsign, \* history: the identifier used by the last ASIGNED dispatched
  pending,   \* history: the entries of the event queue in insertion order
  admitted,  \* history: admitted[i] is the clients appended to queue[i], in order
  started,   \* history: started[i] is the clients whose ARRIVAL at i was
             \* dispatched, in order
  iterations,\* run_simulation: replications completed
  rpc,       \* run_simulation: "loop" in the while True, "return" after a
             \* break, "done" after the return
  stop,      \* history: which break left the loop ("none", "max", "converged")
  tested,    \* history: the last replication evaluated the convergence test
  everFailed,\* history: some evaluated convergence test was not satisfied
  result     \* run_simulation: the dict returned, as key -> estimate pair

vars == <<time, n, p, finish, t, events, n_a, n_d, q, a, d, queue, pc,
          feedbacks, visits, lastRoute, lastAsign, pending, admitted, started,
          iterations, rpc, stop, tested, everFailed, result>>

controller == <<iterations, rpc, stop, tested, everFailed, result>>

params == <<time, n, p, finish>>

None == [kind |-> "none"]

\* ------------------------------------------------------- priority queue
\* Entries are the tuples (t, (e, c, i)); src is a history tag ("ext" for
\* an external arrival, "route" for a FINISH or an ASIGNED put by a handler,
\* "admit" for the ARRIVAL of a client admitted to an empty FIFO, "head" for
\* the ARRIVAL of a client that became head of its FIFO) that takes
\* no part in the comparison.
Event(tt, e, c, i, src) == [t |-> tt, e |-> e, c |-> c, i |-> i, src |-> src]

\* variant: EventType.__lt__ compares the values the wrong way round
EventLess_reversed(x, y) ==
  \/ x.t < y.t
  \/ x.t = y.t /\ x.e > y.e
  \/ x.t = y.t /\ x.e = y.e /\ x.c < y.c
  \/ x.t = y.t /\ x.e = y.e /\ x.c = y.c /\ x.i < y.i

\* Python tuple comparison of (t, (e, c, i)); EventType compares by value
EventLess(x, y) ==
  \/ x.t < y.t
  \/ x.t = y.t /\ x.e < y.e
  \/ x.t = y.t /\ x.e = y.e /\ x.c < y.c
  \/ x.t = y.t /\ x.e = y.e /\ x.c = y.c /\ x.i < y.i

\* events.put(ev): the queue always pops a least entry, so it is kept as
\* the sorted sequence of its entries.  Entries that compare equal are the
\* same tuple for the program; ev goes behind them.
\* variant: the new entry goes to the front, whatever its time
Put_front(evs, ev) == <<ev>> \o evs

Put_stable(evs, ev) ==
  LET k == Cardinality({m \in 1..Len(evs) :
                          \/ evs[m].t < ev.t
                          \/ evs[m].t = ev.t /\ evs[m].e <= ev.e})
  IN SubSeq(evs, 1, k) \o <<ev>> \o SubSeq(evs, k + 1, Len(evs))

Put(evs, ev) ==
  LET k == Cardinality({m \in 1..Len(evs) : ~EventLess(ev, evs[m])})
  IN SubSeq(evs, 1, k) \o <<ev>> \o SubSeq(evs, k + 1, Len(evs))

\* events.put of each entry of puts, in that order
RECURSIVE PutAll(_, _)
PutAll(evs, puts) ==
  IF puts = <<>> THEN evs ELSE PutAll(Put(evs, Head(puts)), Tail(puts))

\* seq without its first entry equal to x
RECURSIVE RemoveFirst(_, _)
RemoveFirst(seq, x) ==
  IF seq = <<>> THEN <<>>
  ELSE IF Head(seq) = x THEN Tail(seq)
  ELSE <<Head(seq)>> \o RemoveFirst(Tail(seq), x)

\* ------------------------------------------------------------ dict/list
\* m.get(c, list())
Get(m, c) == IF c \in DOMAIN m THEN m[c] ELSE <<>>

\* x = m.get(c, list()); x.append(tt); m[c] = x
\* variant: insert(0, t) instead of append(t)
Record_front(m, c, tt) ==
  [k \in DOMAIN m \cup {c} |-> IF k = c THEN <<tt>> \o Get(m, c) ELSE m[k]]

Record(m, c, tt) ==
  [k \in DOMAIN m \cup {c} |-> IF k = c THEN Append(Get(m, c), tt) ELSE m[k]]

Stations == 0..(n - 1)

\* ------------------------------------------------------------------ Init
\* lines 137-148 of servers_simulation, whatever the arguments are
Start ==
  /\ t = 0
  /\ \E gap \in Gaps : events = Put(<<>>, Event(0 + gap, ASIGNED, 0, 0, "ext"))
  /\ pending = events
  /\ admitted = [i \in 0..(n - 1) |-> <<>>]
  /\ started = [i \in 0..(n - 1) |-> <<>>]
  /\ n_a = 0
  /\ n_d = 0
  /\ a = [i \in 0..(n - 1) |-> <<>>]
  /\ q = [i \in 0..(n - 1) |-> <<>>]
  /\ d = [i \in 0..(n - 1) |-> <<>>]
  /\ queue = [i \in 0..(n - 1) |-> <<>>]
  /\ pc = "run"
  /\ feedbacks = 0
  /\ visits = <<>>
  /\ lastRoute = None
  /\ lastAsign = None
  /\ iterations = 0
  /\ rpc = "loop"
  /\ stop = "none"
  /\ tested = FALSE
  /\ everFailed = FALSE
  /\ result = <<>>

Init ==
  /\ time \in Horizons
  /\ n \in 1..MaxN
  /\ p \in PVectors(n)
  /\ finish \in BOOLEAN
  /\ Start

\* variant: the two halves of the loop condition joined the wrong way
LoopCond_nohorizon == events # <<>>

\* variant: the emptiness test is missing
LoopCond_noempty == finish \/ t < time

LoopCond_le == (finish \/ t <= time) /\ events # <<>>

LoopCond_and == (finish /\ t < time) /\ events # <<>>

\* --------------------------------------------------------- the while loop
LoopCond == (finish \/ t < time) /\ events # <<>>

\* variant: the event's own client field is used at station 0 too
Index_keep(c, i) == c

\* index = c if i != 0 else n_a
Index(c, i) == IF i # 0 THEN c ELSE n_a

\* variant: the emptiness test before the immediate ARRIVAL is missing
StartsService_always(fifo) == TRUE

\* variant: the emptiness test is off by one
StartsService_one(fifo) == Len(fifo) <= 1

\* if len(queue[i]) == 0: the station serves the client at once
StartsService(fifo) == Len(fifo) = 0

\* if t + t_next_a < time
Admits(tt, gap) == tt + gap < time

\* variant: the arrival is counted at every station
ArrivalsAfter_every(i) == n_a + 1

\* n_a += 1 when i == 0
ArrivalsAfter(i) == IF i = 0 THEN n_a + 1 ELSE n_a

Asigned(gap) ==
  /\ pc = "run"
  /\ LoopCond
  /\ Head(events).e = ASIGNED
  /\ LET ev == Head(events)
         i == ev.i
         index == Index(ev.c, i)
         who == IF ev.src = "ext" THEN index ELSE ev.c
         put1 == IF StartsService(queue[i])
                   THEN <<Event(ev.t, ARRIVAL, index, i, "admit")>>
                   ELSE <<>>
         put2 == IF i = 0 /\ Admits(ev.t, gap)
                   THEN <<Event(ev.t + gap, ASIGNED, 0, 0, "ext")>>
                   ELSE <<>>
         ev2 == PutAll(Tail(events), put1 \o put2)
     IN /\ t' = ev.t
        /\ pending' = RemoveFirst(pending, ev) \o put1 \o put2
        /\ q' = [q EXCEPT ![i] = Record(@, index, ev.t)]
        /\ queue' = [queue EXCEPT ![i] = Append(@, index)]
        /\ admitted' = [admitted EXCEPT ![i] = Append(@, index)]
        /\ n_a' = ArrivalsAfter(i)
        /\ events' = ev2
        /\ visits' = Record(visits, who, i)
        /\ lastAsign' = [kind |-> "asign", c |-> ev.c, i |-> i,
                         index |-> index, src |-> ev.src]
  /\ lastRoute' = None
  /\ UNCHANGED <<controller, params, n_d, a, d, pc, feedbacks, started>>

\* variant: the service start is stamped with the time the service ends
Arrival_late(duration) ==
  /\ pc = "run"
  /\ LoopCond
  /\ Head(events).e = ARRIVAL
  /\ LET ev == Head(events)
         put1 == <<Event(ev.t + duration, FINISH, ev.c, ev.i, "route")>>
     IN /\ t' = ev.t
        /\ a' = [a EXCEPT ![ev.i] = Record(@, ev.c, ev.t + duration)]
        /\ started' = [started EXCEPT ![ev.i] = Append(@, ev.c)]
        /\ events' = PutAll(Tail(events), put1)
        /\ pending' = RemoveFirst(pending, ev) \o put1
  /\ lastRoute' = None
  /\ lastAsign' = None
  /\ UNCHANGED <<controller, params, n_a, n_d, q, d, queue, pc, feedbacks, visits,
                 admitted>>

Arrival(duration) ==
  /\ pc = "run"
  /\ LoopCond
  /\ Head(events).e = ARRIVAL
  /\ LET ev == Head(events)
         put1 == <<Event(ev.t + duration, FINISH, ev.c, ev.i, "route")>>
     IN /\ t' = ev.t
        /\ a' = [a EXCEPT ![ev.i] = Record(@, ev.c, ev.t)]
        /\ started' = [started EXCEPT ![ev.i] = Append(@, ev.c)]
        /\ events' = PutAll(Tail(events), put1)
        /\ pending' = RemoveFirst(pending, ev) \o put1
  /\ lastRoute' = None
  /\ lastAsign' = None
  /\ UNCHANGED <<controller, params, n_a, n_d, q, d, queue, pc, feedbacks, visits,
                 admitted>>

\* variant: pop() instead of pop(0), the last client is removed
PopHead_last(fifo) ==
  IF Len(fifo) > 0 THEN SubSeq(fifo, 1, Len(fifo) - 1) ELSE fifo

\* if len(queue[i]) > 0: queue[i].pop(0)
PopHead(fifo) == IF Len(fifo) > 0 THEN Tail(fifo) ELSE fifo

\* variant: no ARRIVAL is scheduled for the new head
HasNext_never(fifo) == FALSE

\* variant: the test after the pop is off by one
HasNext_more(fifo) == Len(fifo) > 1

\* if len(queue[i]) > 0 after the pop: the next client starts service
HasNext(fifo) == Len(fifo) > 0

\* variant: every FINISH counts as a departure from the network
DeparturesAfter_every(i) == n_d + 1

\* variant: the departure is counted at the first station
DeparturesAfter_first(i) == IF i = 0 THEN n_d + 1 ELSE n_d

\* n_d += 1 when i == n-1
DeparturesAfter(i) == IF i = n - 1 THEN n_d + 1 ELSE n_d

\* variant: range(i + 1), the station itself is a candidate
Backward_self(i) == 0..i

\* [j for j in range(i)]
Backward(i) == 0..(i - 1)

\* variant: the i == 0 test is missing
NextServer_nozero(i, u, j) == IF u > p[i] THEN i + 1 ELSE j

\* next_server = i+1 if i == 0 or random.uniform(0,1) > p[i]
\*               else random.choice([j for j in range(i)])
NextServer(i, u, j) == IF i = 0 \/ u > p[i] THEN i + 1 ELSE j

Finish(u, j) ==
  /\ pc = "run"
  /\ LoopCond
  /\ Head(events).e = FINISH
  /\ LET ev == Head(events)
         i == ev.i
         fifo == PopHead(queue[i])
         next == NextServer(i, u, j)
         put1 == IF HasNext(fifo)
                   THEN <<Event(ev.t, ARRIVAL, fifo[1], i, "head")>>
                   ELSE <<>>
         put2 == IF i = n - 1
                   THEN <<>>
                   ELSE <<Event(ev.t, ASIGNED, ev.c, next, "route")>>
         fired == i # n - 1 /\ next # i + 1
     IN /\ j \in Backward(i) \cup {0}
        /\ fired => feedbacks < MaxFeedback
        /\ t' = ev.t
        /\ queue' = [queue EXCEPT ![i] = fifo]
        /\ d' = [d EXCEPT ![i] = Record(@, ev.c, ev.t)]
        /\ n_d' = DeparturesAfter(i)
        /\ events' = PutAll(Tail(events), put1 \o put2)
        /\ pending' = RemoveFirst(pending, ev) \o put1 \o put2
        /\ lastRoute' = IF i = n - 1
                          THEN [kind |-> "leave", c |-> ev.c, i |-> i]
                          ELSE [kind |-> "route", c |-> ev.c, i |-> i,
                                low |-> (u <= p[i]), next |-> next]
        /\ feedbacks' = IF fired THEN feedbacks + 1 ELSE feedbacks
  /\ lastAsign' = None
  /\ UNCHANGED <<controller, params, n_a, q, a, pc, visits, admitted, started>>

\* the loop condition is false: return t, n, n_a, n_d, q, a, d
Return ==
  /\ pc = "run"
  /\ ~LoopCond
  /\ pc' = "done"
  /\ lastRoute' = None
  /\ lastAsign' = None
  /\ UNCHANGED <<controller, params, t, events, n_a, n_d, q, a, d, queue,
                 feedbacks, visits, pending, admitted, started>>

Next ==
  \/ \E gap \in Gaps : Asigned(gap)
  \/ \E duration \in Durations : Arrival(duration)
  \/ \E u \in Draws, j \in 0..(MaxN - 1) : Finish(u, j)
  \/ Return

Spec == Init /\ [][Next]_vars

\* Drain-to-completion runs of a network whose feedback vector is all-zero.
\* The dispatch loop is sequential and never blocks: it keeps taking steps
\* until its condition is false.
DrainInit == Init /\ finish /\ (\A i \in 0..(n - 1) : p[i] = 0)

DrainSpec == DrainInit /\ [][Next]_vars /\ WF_vars(Next)

\* Calls whose feedback list is not a list of n probabilities: an entry
\* below 0 or above 1 (3 thirds), or one entry too many. The function has
\* no check of its arguments, so these calls run like any other.
BadPValues == {0 - 1, 4}

BadPVectors(k) ==
  {[i \in 0..(k - 1) |-> v] : v \in BadPValues}
    \cup {[i \in 0..k |-> v] : v \in PValues}

ConfigInit ==
  /\ time \in Horizons
  /\ n \in 1..MaxN
  /\ p \in BadPVectors(n)
  /\ finish \in BOOLEAN
  /\ Start

ConfigSpec == ConfigInit /\ [][Next]_vars

\* Runs of a network of one station more, the smallest in which a client
\* fed back to a station other than 0 visits a station twice under the
\* same identifier.
RevisitInit ==
  /\ time = MaxHorizon - 1
  /\ n = MaxN + 1
  /\ p \in PVectors(n)
  /\ finish \in BOOLEAN
  /\ Start

RevisitSpec == RevisitInit /\ [][Next]_vars

\* ------------------------------- servers_regression.ipynb: simulation
\* The variant has no horizon argument, no feedback and no q trace; its
\* queue entries are the tuples (t, e, c, i) with e in 1..3, compared like
\* those of servers_simulation. generate_exponential is taken to return its
\* draw, a value >= 0: as written it calls random.uniform() with no
\* arguments, which raises TypeError at the first pass of the loop, before
\* anything is put.
RegHorizon == 864

RegGaps == Gaps \cup {RegHorizon}

\* a[i][c] = t, d[i][c] = t: the stamp replaces the one before
Assign(m, c, tt) ==
  [k \in DOMAIN m \cup {c} |-> IF k = c THEN <<tt>> ELSE m[k]]

RegInit ==
  /\ time = RegHorizon
  /\ n \in 1..MaxN
  /\ p = [i \in 0..(n - 1) |-> 0]
  /\ finish = FALSE
  /\ t = 0
  /\ events = <<>>
  /\ pending = <<>>
  /\ admitted = [i \in 0..(n - 1) |-> <<>>]
  /\ started = [i \in 0..(n - 1) |-> <<>>]
  /\ n_a = 0
  /\ n_d = 0
  /\ a = [i \in 0..(n - 1) |-> <<>>]
  /\ q = [i \in 0..(n - 1) |-> <<>>]
  /\ d = [i \in 0..(n - 1) |-> <<>>]
  /\ queue = [i \in 0..(n - 1) |-> <<>>]
  /\ pc = "run"
  /\ feedbacks = 0
  /\ visits = <<>>
  /\ lastRoute = None
  /\ lastAsign = None
  /\ iterations = 0
  /\ rpc = "loop"
  /\ stop = "none"
  /\ tested = FALSE
  /\ everFailed = FALSE
  /\ result = <<>>

\* while(t < 864)
RegLoopCond == t < RegHorizon

\* the put at the top of the loop body, in every pass
RegPut(gap) == Put(events, Event(t + gap, ASIGNED, 0, 0, "ext"))

\* the passes explored: the queue and the arrival counter are capped
RegBudget == Len(events) < MaxRegPending /\ n_a < MaxRegArrivals

RegAsigned(gap) ==
  /\ pc = "run"
  /\ RegLoopCond
  /\ RegBudget
  /\ Head(RegPut(gap)).e = ASIGNED
  /\ LET ev == Head(RegPut(gap))
         i == ev.i
         index == Index(ev.c, i)
         put1 == IF StartsService(queue[i])
                   THEN <<Event(ev.t, ARRIVAL, index, i, "admit")>>
                   ELSE <<>>
     IN /\ t' = ev.t
        /\ events' = PutAll(Tail(RegPut(gap)), put1)
        /\ queue' = [queue EXCEPT ![i] = Append(@, index)]
        /\ n_a' = ArrivalsAfter(i)
        /\ lastAsign' = [kind |-> "asign", c |-> ev.c, i |-> i,
                         index |-> index, src |-> ev.src]
  /\ lastRoute' = None
  /\ UNCHANGED <<controller, params, n_d, q, a, d, pc, feedbacks, visits,
                 pending, admitted, started>>

RegArrival(gap, duration) ==
  /\ pc = "run"
  /\ RegLoopCond
  /\ RegBudget
  /\ Head(RegPut(gap)).e = ARRIVAL
  /\ LET ev == Head(RegPut(gap))
         put1 == <<Event(ev.t + duration, FINISH, ev.c, ev.i, "route")>>
     IN /\ t' = ev.t
        /\ a' = [a EXCEPT ![ev.i] = Assign(@, ev.c, ev.t)]
        /\ events' = PutAll(Tail(RegPut(gap)), put1)
  /\ lastRoute' = None
  /\ lastAsign' = None
  /\ UNCHANGED <<controller, params, n_a, n_d, q, d, queue, pc, feedbacks,
                 visits, pending, admitted, started>>

RegFinish(gap) ==
  /\ pc = "run"
  /\ RegLoopCond
  /\ RegBudget
  /\ Head(RegPut(gap)).e = FINISH
  /\ LET ev == Head(RegPut(gap))
         i == ev.i
         fifo == PopHead(queue[i])
         put1 == IF HasNext(fifo)
                   THEN <<Event(ev.t, ARRIVAL, fifo[1], i, "head")>>
                   ELSE <<>>
         put2 == IF i = n - 1
                   THEN <<>>
                   ELSE <<Event(ev.t, ASIGNED, ev.c, i + 1, "route")>>
     IN /\ t' = ev.t
        /\ queue' = [queue EXCEPT ![i] = fifo]
        /\ d' = [d EXCEPT ![i] = Assign(@, ev.c, ev.t)]
        /\ n_d' = DeparturesAfter(i)
        /\ events' = PutAll(Tail(RegPut(gap)), put1 \o put2)
  /\ lastRoute' = None
  /\ lastAsign' = None
  /\ UNCHANGED <<controller, params, n_a, q, a, pc, feedbacks, visits,
                 pending, admitted, started>>

\* the loop condition is false: the function ends (it returns None)
RegReturn ==
  /\ pc = "run"
  /\ ~RegLoopCond
  /\ pc' = "done"
  /\ lastRoute' = None
  /\ lastAsign' = None
  /\ UNCHANGED <<controller, params, t, events, n_a, n_d, q, a, d, queue,
                 feedbacks, visits, pending, admitted, started>>

RegNext ==
  \/ \E gap \in RegGaps : RegAsigned(gap)
  \/ \E gap \in RegGaps, duration \in Durations : RegArrival(gap, duration)
  \/ \E gap \in RegGaps : RegFinish(gap)
  \/ RegReturn

RegSpec == RegInit /\ [][RegNext]_vars

\* ------------------------------------------------------- run_simulation
min_iterations == 1000
max_iterations == 5000

simulation == <<time, n, p, finish, t, events, n_a, n_d, q, a, d, queue, pc,
                feedbacks, visits, lastRoute, lastAsign, pending,
                admitted, started>>

MaxReached(k) == k >= max_iterations

MinReached_gt(k) == k > min_iterations

MinReached_any(k) == k >= 0

MinReached(k) == k >= min_iterations

\* the dict of the return statement: one (variance, mean) pair per metric
Estimates ==
  [k \in {"Wait Time", "Use Time", "System Time"} |-> "(var, mean)"]

\* one pass of the while True: a replication is run and its means appended,
\* the count is incremented, then the two stopping tests; conv is the
\* outcome of standard_deviation/len(system_time) < convergence_threshold
Replication(conv) ==
  /\ rpc = "loop"
  /\ iterations' = iterations + 1
  /\ IF MaxReached(iterations')
       THEN /\ rpc' = "return"
            /\ stop' = "max"
            /\ tested' = FALSE
            /\ everFailed' = everFailed
       ELSE IF MinReached(iterations')
              THEN /\ tested' = TRUE
                   /\ everFailed' = (everFailed \/ ~conv)
                   /\ rpc' = IF conv THEN "return" ELSE "loop"
                   /\ stop' = IF conv THEN "converged" ELSE "none"
              ELSE /\ tested' = FALSE
                   /\ everFailed' = everFailed
                   /\ rpc' = "loop"
                   /\ stop' = "none"
  /\ UNCHANGED <<simulation, result>>

ReturnEstimates ==
  /\ rpc = "return"
  /\ result' = Estimates
  /\ rpc' = "done"
  /\ UNCHANGED <<simulation, iterations, stop, tested, everFailed>>

RepNext ==
  \/ \E conv \in BOOLEAN : Replication(conv)
  \/ ReturnEstimates

\* the controller on its own: the replications are independent runs, of
\* which only the summary means enter the stopping rule
RepInit == Init /\ n = 1 /\ time = 0 /\ ~finish

RepSpec == RepInit /\ [][RepNext]_vars

\* ================================================================ claims
\* every client id that occurs as a key of a trace mapping
Ids == UNION {DOMAIN q[i] \cup DOMAIN a[i] \cup DOMAIN d[i] : i \in Stations}

\* the feedback probability vector is all-zero
AllZero == \A i \in Stations : p[i] = 0

\* the run has returned in drain-to-completion mode
Drained == pc = "done" /\ finish

\* C1: for every station i and client c, the departure list is never longer
\* than the service-start list, which is never longer than the queue-entry
\* list (absent keys count as length 0).
C1_TraceLengthsOrdered ==
  \A i \in Stations : \A c \in Ids :
    /\ Len(Get(d[i], c)) <= Len(Get(a[i], c))
    /\ Len(Get(a[i], c)) <= Len(Get(q[i], c))

\* C1 witness: at one station a client has departed while another one has
\* entered the queue and is still waiting for its service start.
C1_Witness ==
  \E i \in Stations : \E c1, c2 \in Ids :
    /\ c1 # c2
    /\ Len(Get(d[i], c1)) = 1
    /\ Len(Get(q[i], c2)) = 1
    /\ Len(Get(a[i], c2)) = 0

\* C2: in every state of a run, in either mode and for any feedback vector,
\* the departure counter is at most the arrival counter.
C2_DeparturesAtMostArrivals == n_d <= n_a

\* C2 witness: a run with a non-zero feedback vector has returned and the
\* bound is tight: at least two arrivals, all of them departed.
C2_Witness == pc = "done" /\ ~AllZero /\ n_d >= 2 /\ n_d = n_a

\* C3: when a drain-to-completion run with an all-zero feedback vector has
\* returned, total departures equal total arrivals.
C3_DrainedNoFeedbackLossless == (Drained /\ AllZero) => n_d = n_a

\* C4: with all feedback probabilities zero, a drain-to-completion run
\* eventually returns with an empty event queue.
C4_DrainTerminates ==
  (pc = "run" /\ finish /\ AllZero) ~> (pc = "done" /\ events = <<>>)

\* C4 witness: a drained run with an all-zero vector has returned after
\* serving at least two clients.
C4_Witness == Drained /\ AllZero /\ events = <<>> /\ n_d >= 2 /\ time > 0

\* C5: when a drain-to-completion run returns, for any feedback vector,
\* every station FIFO is empty and the queue-entry, service-start and
\* departure lists of every station and client have the same length.
C5_DrainedAllAccounted ==
  Drained =>
    \A i \in Stations :
      /\ queue[i] = <<>>
      /\ \A c \in Ids :
           /\ Len(Get(q[i], c)) = Len(Get(a[i], c))
           /\ Len(Get(a[i], c)) = Len(Get(d[i], c))

\* C5 witness: a drained run has returned after feedback fired, with at
\* least two clients in its trace.
C5_Witness == Drained /\ feedbacks > 0 /\ Cardinality(Ids) >= 2 /\ n >= 3

\* C6: with the feedback vector all-zero, the stations of every client's
\* ASIGNED events, in dispatch order, are 0, 1, ..., n-1 without repeats.
C6_ZeroFeedbackVisitsInOrder ==
  AllZero =>
    \A c \in DOMAIN visits :
      /\ Len(visits[c]) <= n
      /\ \A k \in 1..Len(visits[c]) : visits[c][k] = k - 1

\* C7: when n > 1, a client finishing station 0 is routed to station 1,
\* whatever p[0] and the routing draw are.
C7_StationZeroRoutesForward ==
  (lastRoute.kind = "route" /\ lastRoute.i = 0) => lastRoute.next = 1

\* C7 witness: a FINISH at station 0 with p[0] > 0 and a routing draw that
\* does not exceed p[0].
C7_Witness ==
  /\ lastRoute.kind = "route"
  /\ lastRoute.i = 0
  /\ p[0] > 0
  /\ lastRoute.low

\* C8: the successor of a station i < n-1 is i+1 or some j with 0 <= j < i;
\* it is never i, never beyond i+1 and always a station of the network.
C8_SuccessorInRange ==
  lastRoute.kind = "route" =>
    /\ lastRoute.i < n - 1
    /\ lastRoute.next \in Stations
    /\ lastRoute.next # lastRoute.i
    /\ lastRoute.next <= lastRoute.i + 1
    /\ \/ lastRoute.next = lastRoute.i + 1
       \/ lastRoute.next \in 0..(lastRoute.i - 1)

\* C8 witness: feedback fired and sent the client strictly backward.
C8_Witness == lastRoute.kind = "route" /\ lastRoute.next < lastRoute.i

\* a client that left the network has no pending event of its own and is
\* in no FIFO
Gone(c) ==
  /\ \A m \in 1..Len(events) : events[m].src # "ext" => events[m].c # c
  /\ \A i \in Stations : \A m \in 1..Len(queue[i]) : queue[i][m] # c

\* C9: n_d equals the number of departure timestamps recorded at station
\* n-1, each client has at most one of them, and a client that finished
\* station n-1 has no successor event.
C9_LastStationDeparture ==
  /\ \A c \in DOMAIN d[n - 1] : Len(d[n - 1][c]) = 1 /\ Gone(c)
  /\ n_d = Cardinality(DOMAIN d[n - 1])
  /\ lastRoute.kind = "leave" => lastRoute.i = n - 1

\* C9 witness: a second client leaves a network of several stations whose
\* last station has a positive feedback probability.
C9_Witness ==
  /\ lastRoute.kind = "leave"
  /\ n >= 2
  /\ p[n - 1] > 0
  /\ n_d >= 2

\* C10: a client routed to any station by a FINISH, station 0 included, is
\* recorded there under the identifier it already has.
C10_SameIdOnRevisit ==
  (lastAsign.kind = "asign" /\ lastAsign.src = "route") =>
    lastAsign.index = lastAsign.c

\* the number of external-arrival events pending in the event queue
ExtPending == Cardinality({m \in 1..Len(events) : events[m].src = "ext"})

\* C11: at most one external-arrival event is pending at any time, and the
\* dispatch of an ASIGNED event put by a FINISH (a client routed to a
\* station, station 0 included) neither increments the arrival counter nor
\* schedules an external arrival.
C11_ExternalArrivalsOnly ==
  /\ [](ExtPending <= 1)
  /\ [][(lastAsign'.kind = "asign" /\ lastAsign'.src = "route") =>
          (n_a' = n_a /\ ExtPending' = ExtPending)]_vars

\* a step of the dispatch loop that handles an event: it appends one
\* timestamp to q (ASIGNED), to a (ARRIVAL) or to d (FINISH)
Dispatches == q' # q \/ a' # a \/ d' # d

\* the kind of the event handled by a dispatching step
DispatchedKind == IF q' # q THEN ASIGNED ELSE IF a' # a THEN ARRIVAL ELSE FINISH

\* C12: the event handled by a dispatch is minimal under (time, kind rank)
\* with ASIGNED < ARRIVAL < FINISH: no event pending before the dispatch
\* has a smaller time, nor the same time and a lower kind rank.
C12_DispatchesMinimalEvent ==
  [][Dispatches =>
       \A m \in 1..Len(events) :
         ~(\/ events[m].t < t'
           \/ events[m].t = t' /\ events[m].e < DispatchedKind)]_vars

\* C12 witness: the clock stands at a time at which two events of
\* different kinds are still pending, next to an event of a later time.
C12_Witness ==
  /\ pc = "run"
  /\ Len(events) >= 3
  /\ events[1].t = t
  /\ events[2].t = t
  /\ events[1].e # events[2].e
  /\ events[3].t > t

SameSlot(x, y) == x.t = y.t /\ x.e = y.e

SameTuple(x, y) == SameSlot(x, y) /\ x.c = y.c /\ x.i = y.i

\* C13 (as stated): of the pending events with the time and kind of the
\* dispatched one, the dispatched one is the one inserted first.
C13_TiesInInsertionOrder ==
  [][Dispatches =>
       LET h == Head(events)
           S == {m \in 1..Len(pending) : SameSlot(pending[m], h)}
           k == CHOOSE m \in S : \A m2 \in S : m <= m2
       IN SameTuple(pending[k], h)]_vars

\* C13 (amended): of the pending events with the time and kind of the
\* dispatched one, the dispatched one has the least (client, station) pair,
\* whatever the order of insertion.
C13_TiesByClientThenStation ==
  [][Dispatches =>
       LET h == Head(events)
       IN \A m \in 1..Len(pending) :
            SameSlot(pending[m], h) =>
              ~(\/ pending[m].c < h.c
                \/ pending[m].c = h.c /\ pending[m].i < h.i)]_vars

\* a tie in which the entry put later is the next one dispatched
C13_Witness ==
  /\ pc = "run" /\ LoopCond
  /\ \E k, m \in 1..Len(pending) :
       /\ k < m
       /\ SameSlot(pending[k], pending[m])
       /\ ~SameTuple(pending[k], pending[m])
       /\ SameTuple(pending[m], Head(events))

C15_NoAdmissionAtOrAfterHorizon ==
  /\ [](\A m \in 1..Len(events) : events[m].src = "ext" => events[m].t < time)
  /\ [][(lastAsign'.kind = "asign" /\ lastAsign'.src = "ext") => t' < time]_vars

\* C16: with one station, horizon 0 and no drain, nothing is dispatched: the
\* clock, both counters and the three trace mappings stay as initialised.
C16_ZeroHorizonNoDispatch ==
  (n = 1 /\ time = 0 /\ ~finish) =>
     /\ t = 0 /\ n_a = 0 /\ n_d = 0
     /\ DOMAIN q[0] = {} /\ DOMAIN a[0] = {} /\ DOMAIN d[0] = {}
     /\ queue[0] = <<>>

C16_Witness == pc = "done" /\ n = 1 /\ time = 0 /\ ~finish

C18_StopsAtMinWhenTestPasses ==
  (rpc = "done" /\ ~everFailed) => iterations = min_iterations

C18_Witness ==
  rpc = "done" /\ ~everFailed /\ tested /\ stop = "converged"

\* C19 (as stated): a result produced after stopping at the maximum carries
\* the three estimates and something more that marks it as unconverged, so
\* that it differs from the result of a run stopped by convergence.
C19_UnconvergedFlagged ==
  (rpc = "done" /\ stop = "max") =>
     /\ \A k \in DOMAIN Estimates : k \in DOMAIN result
     /\ result # Estimates

Invalid ==
  \/ n < 1
  \/ DOMAIN p # 0..(n - 1)
  \/ \E i \in DOMAIN p : p[i] < 0 \/ p[i] > 3

\* C20 (as stated): under an invalid configuration no event is ever in the
\* event queue and no counter or trace leaves its initial value.
C20_InvalidRejected ==
  Invalid =>
     /\ events = <<>>
     /\ n_a = 0 /\ n_d = 0
     /\ \A i \in Stations : q[i] = <<>> /\ a[i] = <<>> /\ d[i] = <<>>

\* C22: no pending event is earlier than the clock, and the clock never
\* moves backwards.
C22_ClockNonDecreasing ==
  /\ [](\A m \in 1..Len(events) : events[m].t >= t)
  /\ [][t' >= t]_vars

\* the clock has advanced twice and events of the current and of a later
\* time are pending
C22_Witness ==
  /\ pc = "run" /\ t >= 2 /\ Len(events) >= 2
  /\ events[1].t = t /\ events[Len(events)].t > t

\* C23: whenever the loop body is entered, so that events.get() is executed,
\* at least one event is pending.
C23_NoGetOnEmptyQueue == (pc = "run" /\ LoopCond) => events # <<>>

\* the loop test is evaluated on an empty queue before the horizon, after
\* a client has left the network
C23_Witness ==
  pc = "run" /\ events = <<>> /\ t < time /\ n_d > 0

Last(seq) == seq[Len(seq)]

\* C24: the service-start stamp recorded by an ARRIVAL is the client's
\* queue-entry stamp when it was admitted to an empty FIFO, and the
\* departure stamp of the client served before it at the station when it
\* became head after that client's FINISH.
C24_ServiceStartsWhenAvailable ==
  [][a' # a =>
       LET ev == Head(events)
           i == ev.i
           c == ev.c
           st == Last(a'[i][c])
       IN /\ ev.src = "admit" =>
               c \in DOMAIN q[i] /\ st = Last(q[i][c])
          /\ ev.src = "head" =>
               /\ started[i] # <<>>
               /\ Last(started[i]) \in DOMAIN d[i]
               /\ st = Last(d[i][Last(started[i])])]_vars

\* a client that waited started service at the departure of the one before
C24_Witness ==
  \E i \in Stations :
    /\ Len(started[i]) >= 2
    /\ LET c == started[i][Len(started[i])]
           b == started[i][Len(started[i]) - 1]
       IN /\ c \in DOMAIN a[i] /\ c \in DOMAIN q[i] /\ b \in DOMAIN d[i]
          /\ Last(a[i][c]) = Last(d[i][b])
          /\ Last(q[i][c]) < Last(a[i][c])

\* C26: at every station the clients start service in the order in which
\* they were admitted to the FIFO.
C26_ServiceInAdmissionOrder ==
  \A i \in Stations :
    /\ Len(started[i]) <= Len(admitted[i])
    /\ \A k \in 1..Len(started[i]) : started[i][k] = admitted[i][k]

\* two clients admitted to a station at the same time have both started
C26_Witness ==
  \E i \in Stations :
    /\ Len(started[i]) >= 2
    /\ LET c1 == started[i][1]
           c2 == started[i][2]
       IN /\ c1 # c2
          /\ c1 \in DOMAIN q[i] /\ c2 \in DOMAIN q[i]
          /\ q[i][c1][1] = q[i][c2][1]

\* the pending ARRIVAL and FINISH events of station i
InService(i) ==
  {m \in 1..Len(events) :
     events[m].i = i /\ events[m].e \in {ARRIVAL, FINISH}}

\* C29: a station with an empty FIFO has no pending ARRIVAL or FINISH; a
\* station with a non-empty FIFO has exactly one, for the head of the FIFO.
C29_OneServiceEventPerBusyStation ==
  \A i \in Stations :
    IF queue[i] = <<>>
      THEN InService(i) = {}
      ELSE /\ Cardinality(InService(i)) = 1
           /\ \A m \in InService(i) : events[m].c = queue[i][1]

\* a client is in service while another waits behind it
C29_Witness ==
  \E i \in Stations :
    /\ Len(queue[i]) >= 2
    /\ \E m \in InService(i) : events[m].e = FINISH

\* C30: a FINISH is dispatched with its client at the head of the station's
\* FIFO, and the pop removes that client.
C30_FinishPopsItsClient ==
  [][d' # d =>
       LET ev == Head(events)
       IN /\ queue[ev.i] # <<>>
          /\ queue[ev.i][1] = ev.c
          /\ queue'[ev.i] = Tail(queue[ev.i])]_vars

\* a FINISH has popped its client and left another one in the FIFO
C30_Witness ==
  /\ lastRoute.kind \in {"route", "leave"}
  /\ queue[lastRoute.i] # <<>>
  /\ queue[lastRoute.i][1] # lastRoute.c

\* C25: for every station, client and visit j, the j-th service start is
\* not before the j-th queue entry and the j-th departure is not before the
\* j-th service start.
C25_VisitStampsOrdered ==
  \A i \in Stations :
    /\ \A c \in DOMAIN a[i] : \A j \in 1..Len(a[i][c]) :
         j <= Len(Get(q[i], c)) /\ q[i][c][j] <= a[i][c][j]
    /\ \A c \in DOMAIN d[i] : \A j \in 1..Len(d[i][c]) :
         j <= Len(Get(a[i], c)) /\ a[i][c][j] <= d[i][c][j]

\* a client has completed two visits to a station, the second one later
C25_Witness ==
  \E i \in Stations : \E c \in DOMAIN d[i] :
    Len(d[i][c]) >= 2 /\ q[i][c][1] < q[i][c][2]

\* ------------------------------------------------ metrics_by_simulation
\* The summary of one run, computed from what servers_simulation returned.
\* for c in range(n_a)
Clients == 0..(n_a - 1)

\* the client has a queue-entry stamp at station s
Queued(s, c) == Len(Get(q[s], c)) > 0

\* none of q_t, a_t, d_t is empty: the client reaches the last block of the
\* inner loop
Complete(s, c) ==
  Len(Get(q[s], c)) > 0 /\ Len(Get(a[s], c)) > 0 /\ Len(Get(d[s], c)) > 0

\* system_time = [0 for _ in range(n_a)], then -= q_t[0] at station 0 and
\* += d_t[-1] at station n-1, each when c < n_d
system_time ==
  [c \in Clients |->
     (IF Complete(0, c) /\ c < n_d THEN 0 - q[0][c][1] ELSE 0)
       + (IF Complete(n - 1, c) /\ c < n_d THEN Last(d[n - 1][c]) ELSE 0)]

\* wait_time.append(np.mean(wait_time_per_client)) for every s in range(n):
\* the mean of an empty list is nan
wait_time ==
  [s \in Stations |->
     IF {c \in Clients : Queued(s, c)} = {} THEN "nan" ELSE "mean"]

\* use_time.append(np.mean(use_time_per_client)) for every s in range(n)
use_time ==
  [s \in Stations |->
     IF {c \in Clients : Complete(s, c)} = {} THEN "nan" ELSE "mean"]

\* the client entered station 0 and departed from station n-1
Served(c) == c \in DOMAIN q[0] /\ c \in DOMAIN d[n - 1]

\* C21 (as stated): the summary of a finished run has a system time exactly
\* for the clients that entered station 0 and departed from station n-1,
\* equal to the last departure from n-1 minus the first entry at 0, and
\* never negative.
C21_SystemTimeOfServedClients ==
  pc = "done" =>
     /\ \A c \in Ids : Served(c) => c \in DOMAIN system_time
     /\ \A c \in DOMAIN system_time :
          /\ Served(c)
          /\ system_time[c] = Last(d[n - 1][c]) - q[0][c][1]
          /\ system_time[c] >= 0

\* C27 (as stated): every entry of the per-station wait and service lists
\* of a finished run is a mean over at least one client.
C27_OnlyObservedStations ==
  pc = "done" =>
     /\ \A s \in DOMAIN wait_time : wait_time[s] # "nan"
     /\ \A s \in DOMAIN use_time : use_time[s] # "nan"

Places(i, c) == {k \in 1..Len(queue[i]) : queue[i][k] = c}

\* the client fields of the pending events put by a handler; the client
\* field of a pending external arrival is the constant 0 of the put, and
\* the client gets its identifier when the event is dispatched
EventIds == {events[m].c : m \in {k \in 1..Len(events) : events[k].src # "ext"}}

FifoIds == UNION {{queue[i][k] : k \in 1..Len(queue[i])} : i \in Stations}

\* C31: no client identifier is in two FIFOs or twice in one, and a client
\* with a pending ASIGNED put by a FINISH is in no FIFO.
C31_ClientInOnePlace ==
  /\ \A i \in Stations : \A c \in FifoIds : Cardinality(Places(i, c)) <= 1
  /\ \A i, j \in Stations : \A c \in FifoIds :
       (i # j /\ Places(i, c) # {}) => Places(j, c) = {}
  /\ \A m \in 1..Len(events) :
       (events[m].e = ASIGNED /\ events[m].src = "route") =>
          events[m].c \notin FifoIds

\* a client is between two stations while two FIFOs hold other clients
C31_Witness ==
  /\ \E m \in 1..Len(events) :
       events[m].e = ASIGNED /\ events[m].src = "route"
  /\ \E i, j \in Stations : i # j /\ queue[i] # <<>> /\ queue[j] # <<>>

====
